---- MODULE Spec2Model ----
(***************************************************************************)
(* The ETL run of src/etl.py (function main) as a state machine.           *)
(*                                                                         *)
(* Strings that the program takes apart (storage prefixes, remote file     *)
(* names, local paths) are sequences of tokens: "/" is the separator and   *)
(* WORKSPACE_FILE the marker "%WORKSPACE_FILE%".  The remote platform      *)
(* (runner description, dataset table, workspace files, graph store) is    *)
(* the environment: what it holds is drawn from small sets, and each       *)
(* remote call may fail, which the program does not catch.                 *)
(***************************************************************************)
EXTENDS Naturals, Sequences, FiniteSets

VARIABLES
    pc,              \* position of main() in its body
    run,             \* number of the current invocation of main()
    runner_data,     \* result of get_runner: dataset_list, parameters_values
    workspace_files, \* the remote workspace file listing
    zip_content,     \* members of the remote archive, once it was opened
    all_api_files,   \* main's copy of the listing (line 53)
    i,               \* index of the parameter the loop of line 58 is at
    parameters,      \* the resolved mapping: parameter_id -> <<value, var_type>>
    existing_files,  \* matching remote names still to download (line 89)
    dirs,            \* local directories made by os.makedirs
    files,           \* local disk: path -> content
    lookups,         \* parameters find_dataset_by_id was called for at line 67
    downloads,       \* download_workspace_file calls of this run, in order, each with
                     \* the parameter it was made for
    written,         \* local paths opened for writing in this run, in order
    bars, customers, satisfactions, links,   \* the record lists
    status,          \* dataset.status as read at line 165
    calls,           \* twingraph calls issued in this run, in order
    create,          \* result of the node bulk-create (line 172)
    graph,           \* the target graph: nodes and relationships
    next_twin,       \* the store's next identifier
    pre_graph,       \* the graph as it was when this run started
    first_result     \* the graph as the first completed run left it

vars == <<pc, run, runner_data, workspace_files, zip_content, all_api_files, i,
          parameters, existing_files, dirs, files, lookups, downloads, written,
          bars, customers, satisfactions, links, status, calls, create,
          graph, next_twin, pre_graph, first_result>>

(***************************************************************************)
(* Bounds of the model.                                                    *)
(***************************************************************************)
MaxFiles == 2       \* longest workspace file listing
MaxCustomers == 2   \* most rows of Nodes/Customer.csv
MaxEdges == 1       \* most rows of each edge table
MaxRuns == 2        \* invocations of main() against the same dataset

(***************************************************************************)
(* String helpers.                                                         *)
(***************************************************************************)
WORKSPACE_FILE == "%WORKSPACE_FILE%"
DATASETID == "%DATASETID%"

\* sub in s (str.__contains__)
Contains(s, sub) ==
    \E k \in 0..(Len(s) - Len(sub)) : SubSeq(s, k + 1, k + Len(sub)) = sub

\* s.startswith(p)
StartsWith(s, p) == Len(p) <= Len(s) /\ SubSeq(s, 1, Len(p)) = p

\* s.replace(old, '') for a non-empty old
RECURSIVE Remove(_, _)
Remove(s, old) ==
    IF s = <<>> THEN <<>>
    ELSE IF StartsWith(s, old) THEN Remove(SubSeq(s, Len(old) + 1, Len(s)), old)
    ELSE <<Head(s)>> \o Remove(Tail(s), old)

\* the remote name kept whole
WholeName(s) == s

\* s.split('/')[-1]
RECURSIVE LastSegment(_)
LastSegment(s) ==
    IF ~Contains(s, <<"/">>) THEN s
    ELSE LastSegment(Tail(s))

\* int(s): the literals that parse, and their values
IntLiterals == {<<"5">>, <<"05">>, <<"10">>, <<"100">>}
IsInt(s) == s \in IntLiterals
ParseInt(s) ==
    CASE s = <<"5">> -> 5
      [] s = <<"05">> -> 5
      [] s = <<"10">> -> 10
      [] s = <<"100">> -> 100

\* the f-string formatting of an int
FormatInt(n) ==
    CASE n = 5 -> "5"
      [] n = 10 -> "10"
      [] n = 100 -> "100"

(***************************************************************************)
(* The environment: what the remote platform can hold.                     *)
(***************************************************************************)
RequiredIds == <<"num_waiters", "restock_quantity", "stock", "bar_instance">>

RECURSIVE Reverse(_)
Reverse(s) == IF s = <<>> THEN <<>> ELSE Reverse(Tail(s)) \o <<Head(s)>>

\* the <<value, var_type>> pairs a parameter of the run may carry
ParamChoices(id) ==
    CASE id = "num_waiters" -> {<<(<<"05">>), "int">>, <<(<<"ds_bare">>), DATASETID>>}
      [] id = "restock_quantity" -> {<<(<<"10">>), "int">>, <<(<<"ten">>), "string">>}
      [] id = "stock" -> {<<(<<"100">>), "int">>, <<(<<"ds_ext">>), DATASETID>>}
      [] id = "bar_instance" -> {<<(<<"ds_bar">>), DATASETID>>, <<(<<"ds_none">>), DATASETID>>,
                                 <<(<<"data">>), "string">>}

\* every list of parameters with distinct ids that keeps the order of ids
RECURSIVE ParamListsOf(_)
ParamListsOf(ids) ==
    IF ids = <<>> THEN {<<>>}
    ELSE LET rest == ParamListsOf(Tail(ids))
         IN  rest \cup
             { <<[parameter_id |-> Head(ids), value |-> c[1], var_type |-> c[2]]>> \o r :
                 c \in ParamChoices(Head(ids)), r \in rest }

ParamLists == ParamListsOf(RequiredIds) \cup ParamListsOf(Reverse(RequiredIds))

\* connector.parameters_values.get('AZURE_STORAGE_CONTAINER_BLOB_PREFIX', False)
\* of the dataset find_dataset_by_id returns for a dataset id
BlobPrefix(dataset_id) ==
    CASE dataset_id = <<"ds_bar">> -> [present |-> TRUE, text |-> <<WORKSPACE_FILE, "/", "bar">>]
      [] dataset_id = <<"ds_bare">> -> [present |-> TRUE, text |-> <<WORKSPACE_FILE>>]
      [] dataset_id = <<"ds_ext">> -> [present |-> TRUE, text |-> <<"ext", "/", "bar">>]
      [] OTHER -> [present |-> FALSE, text |-> <<>>]

ArchiveName == <<"bar", "/", "brewery_instance.zip">>
FileNames == { ArchiveName,
               <<"bar", "/", "old", "/", "brewery_instance.zip">>,
               <<"other", "/", "readme.txt">> }

RECURSIVE SeqsUpTo(_, _)
SeqsUpTo(S, n) ==
    IF n = 0 THEN {<<>>}
    ELSE LET shorter == SeqsUpTo(S, n - 1)
         IN  shorter \cup { Append(q, x) : q \in shorter, x \in S }

Range(q) == { q[k] : k \in 1..Len(q) }

\* listings of distinct names
FileIndexes == { q \in SeqsUpTo(FileNames, MaxFiles) : Cardinality(Range(q)) = Len(q) }

CustomerRows ==
    { [id |-> "c1", Satisfaction |-> "0", SurroundingSatisfaction |-> "0", Thirsty |-> "false"],
      [id |-> "c2", Satisfaction |-> "1", SurroundingSatisfaction |-> "0", Thirsty |-> "true"] }
SatisfactionRows ==
    { [source |-> "c1", target |-> "c2", name |-> "s1"],
      [source |-> "c1", target |-> "c9", name |-> "s2"] }
BarVertexRows == { [source |-> "MyBar", target |-> "c1", name |-> "l1"] }

\* a CSV member of the archive: absent, with a header that lacks the columns
\* read, or well formed
Tables(rows, max) ==
    { [present |-> FALSE, header_ok |-> TRUE, rows |-> <<>>] } \cup
    { [present |-> TRUE, header_ok |-> FALSE, rows |-> <<x>>] : x \in rows } \cup
    { [present |-> TRUE, header_ok |-> TRUE, rows |-> q] : q \in SeqsUpTo(rows, max) }

Archives ==
    { [fetched |-> TRUE, Customer |-> c, Satisfaction |-> s, Bar_vertex |-> b] :
        c \in Tables(CustomerRows, MaxCustomers),
        s \in Tables(SatisfactionRows, MaxEdges),
        b \in Tables(BarVertexRows, MaxEdges) }

NotFetched == [fetched |-> FALSE]

CsvId(s) == <<"csv", s>>
TwinId(n) == <<"twin", n>>

EmptyGraph == [nodes |-> <<>>, rels |-> <<>>]
OldNode == [type |-> "Customer", name |-> "c0", params |-> <<"Name: '", "c0", "'">>]
OldRelationship ==
    [type |-> "satisfaction", source |-> TwinId(1), target |-> TwinId(1), name |-> "s0",
     params |-> <<"a: 'a'">>]
OldGraph == [nodes |-> <<[twin_id |-> TwinId(1), rec |-> OldNode]>>,
             rels |-> <<OldRelationship>>]

NoParameters == [x \in {} |-> <<>>]
Put(f, k, v) == [x \in DOMAIN f \cup {k} |-> IF x = k THEN v ELSE f[x]]

Init ==
    /\ pc = "start"
    /\ run = 1
    /\ \E dl \in {<<>>, <<"target">>}, pl \in ParamLists :
           runner_data = [dataset_list |-> dl, parameters_values |-> pl]
    /\ workspace_files \in FileIndexes
    /\ zip_content = NotFetched
    /\ all_api_files = <<>>
    /\ i = 1
    /\ parameters = NoParameters
    /\ existing_files = <<>>
    /\ dirs = {}
    /\ files = NoParameters
    /\ lookups = {}
    /\ downloads = <<>>
    /\ written = <<>>
    /\ bars = <<>> /\ customers = <<>> /\ satisfactions = <<>> /\ links = <<>>
    /\ status = FALSE
    /\ calls = <<>>
    /\ create = <<>>
    /\ graph \in {EmptyGraph, OldGraph}
    /\ next_twin = Len(graph.nodes) + 1
    /\ pre_graph = graph
    /\ first_result = EmptyGraph

(***************************************************************************)
(* Parameter resolution, lines 44-98.                                      *)
(***************************************************************************)
local_vars == <<bars, customers, satisfactions, links>>
store_vars == <<status, calls, create, graph, next_twin, pre_graph, first_result>>
env_vars == <<runner_data, workspace_files, zip_content>>
disk_vars == <<dirs, files, written>>
log_vars == <<lookups, downloads>>

\* the run dies of an exception nothing catches
Abort ==
    /\ pc' = "failed"
    /\ UNCHANGED <<run, env_vars, all_api_files, i, parameters, existing_files,
                   disk_vars, downloads, local_vars, store_vars>>

\* lines 44-55: get_runner, find_dataset_by_id of dataset_list[0], the listing
LoadRunData ==
    /\ pc = "start"
    /\ runner_data.dataset_list # <<>>
    /\ pc' = "loop"
    /\ all_api_files' = workspace_files
    /\ UNCHANGED <<run, env_vars, i, parameters, existing_files, disk_vars,
                   log_vars, local_vars, store_vars>>

\* line 50: dataset_list[0] of an empty list
NoTargetDataset ==
    /\ pc = "start"
    /\ runner_data.dataset_list = <<>>
    /\ Abort
    /\ UNCHANGED lookups

AtParameter == pc = "loop" /\ i <= Len(runner_data.parameters_values)
parameter == runner_data.parameters_values[i]

\* line 98 stores the value as it came, int() is applied at line 109 only
EntryNormalised(value, var_type) ==
    <<IF IsInt(value) THEN <<FormatInt(ParseInt(value))>> ELSE value, var_type>>

\* line 98: the value of the mapping
Entry(value, var_type) == <<value, var_type>>

\* lines 66, 98: a parameter that is no dataset keeps its value
ResolveLiteral ==
    /\ AtParameter
    /\ parameter.var_type # DATASETID
    /\ parameters' = Put(parameters, parameter.parameter_id,
                         Entry(parameter.value, parameter.var_type))
    /\ i' = i + 1
    /\ UNCHANGED <<pc, run, env_vars, all_api_files, existing_files, disk_vars,
                   log_vars, local_vars, store_vars>>

\* line 74 without its test of the marker
DownloadableIfPresent(prefix) == prefix.present /\ prefix.text # <<>>

\* line 74
Downloadable(prefix) ==
    /\ prefix.present
    /\ prefix.text # <<>>
    /\ Contains(prefix.text, <<WORKSPACE_FILE>>)

\* lines 67-76: a dataset that is no workspace file is skipped
SkipDataset ==
    /\ AtParameter
    /\ parameter.var_type = DATASETID
    /\ ~Downloadable(BlobPrefix(parameter.value))
    /\ lookups' = lookups \cup {parameter.parameter_id}
    /\ i' = i + 1
    /\ UNCHANGED <<pc, run, env_vars, all_api_files, parameters, existing_files,
                   disk_vars, downloads, local_vars, store_vars>>

\* line 79
tmp_dataset_dir(param_id) == <<"$CSM_PARAMETERS_ABSOLUTE_PATH", "/", param_id>>

\* line 78
BaseFileName(prefix) == Remove(prefix.text, <<WORKSPACE_FILE, "/">>)

\* lines 82-84
RECURSIVE Matching(_, _)
Matching(listing, file_name) ==
    IF listing = <<>> THEN <<>>
    ELSE (IF StartsWith(Head(listing), file_name) THEN <<Head(listing)>> ELSE <<>>)
         \o Matching(Tail(listing), file_name)

\* lines 77-87: the directory is made and the matching files are listed
StartDataset ==
    /\ AtParameter
    /\ parameter.var_type = DATASETID
    /\ Downloadable(BlobPrefix(parameter.value))
    /\ dirs' = dirs \cup {tmp_dataset_dir(parameter.parameter_id)}
    /\ existing_files' = Matching(all_api_files, BaseFileName(BlobPrefix(parameter.value)))
    /\ lookups' = lookups \cup {parameter.parameter_id}
    /\ pc' = "download"
    /\ UNCHANGED <<run, env_vars, all_api_files, i, parameters, files, written,
                   downloads, local_vars, store_vars>>

\* line 94
target_file(dir, name) == dir \o <<"/">> \o LastSegment(name)

\* the bytes download_workspace_file returns for a name: only the archive is a zip
Served(name) == [zip |-> name = ArchiveName]

\* lines 89-96: one turn of the download loop
DownloadFile ==
    /\ pc = "download"
    /\ existing_files # <<>>
    /\ LET name == Head(existing_files)
           path == target_file(tmp_dataset_dir(parameter.parameter_id), name)
       IN  /\ downloads' = Append(downloads, [parameter_id |-> parameter.parameter_id,
                                            file_name |-> name])
           /\ files' = Put(files, path, Served(name))
           /\ written' = Append(written, path)
    /\ existing_files' = Tail(existing_files)
    /\ UNCHANGED <<pc, run, env_vars, all_api_files, i, parameters,
                   dirs, lookups, local_vars, store_vars>>

\* lines 97-98: the parameter resolves to its directory
FinishDataset ==
    /\ pc = "download"
    /\ existing_files = <<>>
    /\ parameters' = Put(parameters, parameter.parameter_id,
                         Entry(tmp_dataset_dir(parameter.parameter_id), parameter.var_type))
    /\ i' = i + 1
    /\ pc' = "loop"
    /\ UNCHANGED <<run, env_vars, all_api_files, existing_files, disk_vars,
                   log_vars, local_vars, store_vars>>

\* a remote read raises: get_runner, find_dataset_by_id, find_all_workspace_files,
\* download_workspace_file
ApiFailure ==
    /\ \/ pc = "start"
       \/ AtParameter /\ parameter.var_type = DATASETID
       \/ pc = "download" /\ existing_files # <<>>
       \/ pc = "status"
    /\ lookups' = IF AtParameter /\ parameter.var_type = DATASETID
                  THEN lookups \cup {parameter.parameter_id}
                  ELSE lookups
    /\ Abort

(***************************************************************************)
(* The records, lines 102-161.                                             *)
(***************************************************************************)
\* parameters.get(k, default)[0] in place of parameters[k][0]
ResolvedOrDefault(k) ==
    IF k \in DOMAIN parameters
    THEN [found |-> TRUE, value |-> parameters[k][1]]
    ELSE [found |-> TRUE, value |-> <<"5">>]

\* parameters[k][0], or the KeyError
Resolved(k) ==
    IF k \in DOMAIN parameters
    THEN [found |-> TRUE, value |-> parameters[k][1]]
    ELSE [found |-> FALSE, value |-> <<>>]

\* int(parameters[k][0]) neither raises KeyError nor ValueError
IntParameter(k) == Resolved(k).found /\ IsInt(Resolved(k).value)

\* lines 106-112
bar ==
    [type |-> "Bar",
     name |-> "MyBar",
     params |-> <<"NbWaiters: ", FormatInt(ParseInt(Resolved("num_waiters").value)), ",",
                  "RestockQty: ", FormatInt(ParseInt(Resolved("restock_quantity").value)), ",",
                  "Stock: ", FormatInt(ParseInt(Resolved("stock").value))>>]

LoopDone == pc = "loop" /\ i > Len(runner_data.parameters_values)
BarOk == IntParameter("num_waiters") /\ IntParameter("restock_quantity") /\ IntParameter("stock")

\* lines 102-115: the Bar record, then base_path
BuildBar ==
    /\ LoopDone
    /\ BarOk
    /\ Resolved("bar_instance").found
    /\ bars' = <<bar>>
    /\ pc' = "extract"
    /\ UNCHANGED <<run, env_vars, all_api_files, i, parameters, existing_files,
                   disk_vars, log_vars, customers, satisfactions, links, store_vars>>

\* lines 109-115: a required parameter is missing or is no integer
BuildBarFails ==
    /\ LoopDone
    /\ ~(BarOk /\ Resolved("bar_instance").found)
    /\ bars' = IF BarOk THEN <<bar>> ELSE <<>>
    /\ pc' = "failed"
    /\ UNCHANGED <<run, env_vars, all_api_files, i, parameters, existing_files,
                   disk_vars, log_vars, customers, satisfactions, links, store_vars>>

base_path == Resolved("bar_instance").value
archive_path == base_path \o <<"/", "brewery_instance.zip">>
MemberPath(member) == base_path \o <<"/", "reference", "/">> \o member
CustomerCsv == <<"Nodes", "/", "Customer.csv">>
SatisfactionCsv == <<"Edges", "/", "arc_Satisfaction.csv">>
BarVertexCsv == <<"Edges", "/", "Bar_vertex.csv">>

CanExtract == archive_path \in DOMAIN files /\ files[archive_path].zip

\* the members of the archive; they are the same each time it is opened
Members == IF zip_content = NotFetched THEN Archives ELSE {zip_content}

Member(table) == [zip |-> FALSE, header_ok |-> table.header_ok, rows |-> table.rows]

\* ZipFile.extractall: every member is written under base_path
Extracted(disk, archive) ==
    LET present == { m \in { <<CustomerCsv, archive.Customer>>,
                             <<SatisfactionCsv, archive.Satisfaction>>,
                             <<BarVertexCsv, archive.Bar_vertex>> } : m[2].present }
        paths == { MemberPath(m[1]) : m \in present }
    IN  [x \in DOMAIN disk \cup paths |->
           IF x \in paths
           THEN Member((CHOOSE m \in present : MemberPath(m[1]) = x)[2])
           ELSE disk[x]]

\* lines 116-117
Extract ==
    /\ pc = "extract"
    /\ CanExtract
    /\ \E archive \in Members :
         /\ zip_content' = archive
         /\ files' = Extracted(files, archive)
    /\ pc' = "customers"
    /\ UNCHANGED <<run, runner_data, workspace_files, all_api_files, i, parameters,
                   existing_files, dirs, written, log_vars, local_vars, store_vars>>

\* line 116: no archive at the path, or no zip
ExtractFails ==
    /\ pc = "extract"
    /\ ~CanExtract
    /\ Abort
    /\ UNCHANGED lookups

\* open() finds the file and no row lacks a column that is read
Readable(member) ==
    /\ MemberPath(member) \in DOMAIN files
    /\ files[MemberPath(member)].header_ok \/ files[MemberPath(member)].rows = <<>>

Rows(member) == files[MemberPath(member)].rows

\* lines 125-132
customer(row) ==
    [type |-> "Customer",
     name |-> row.id,
     params |-> <<"Name: '", row.id, "',",
                  "Satisfaction: ", row.Satisfaction, ",",
                  "SurroundingSatisfaction: ", row.SurroundingSatisfaction, ",",
                  "Thirsty: ", row.Thirsty>>]

\* lines 140-146 and 154-160
relationship(type, row) ==
    [type |-> type,
     source |-> CsvId(row.source),
     target |-> CsvId(row.target),
     name |-> row.name,
     params |-> <<"a: 'a'">>]

\* lines 120-133
ReadCustomers ==
    /\ pc = "customers"
    /\ Readable(CustomerCsv)
    /\ customers' = [k \in 1..Len(Rows(CustomerCsv)) |-> customer(Rows(CustomerCsv)[k])]
    /\ pc' = "satisfactions"
    /\ UNCHANGED <<run, env_vars, all_api_files, i, parameters, existing_files,
                   disk_vars, log_vars, bars, satisfactions, links, store_vars>>

\* lines 135-147
ReadSatisfactions ==
    /\ pc = "satisfactions"
    /\ Readable(SatisfactionCsv)
    /\ satisfactions' = [k \in 1..Len(Rows(SatisfactionCsv)) |->
                           relationship("satisfaction", Rows(SatisfactionCsv)[k])]
    /\ pc' = "links"
    /\ UNCHANGED <<run, env_vars, all_api_files, i, parameters, existing_files,
                   disk_vars, log_vars, bars, customers, links, store_vars>>

\* lines 149-161
ReadLinks ==
    /\ pc = "links"
    /\ Readable(BarVertexCsv)
    /\ links' = [k \in 1..Len(Rows(BarVertexCsv)) |->
                   relationship("bar_vertex", Rows(BarVertexCsv)[k])]
    /\ pc' = "status"
    /\ UNCHANGED <<run, env_vars, all_api_files, i, parameters, existing_files,
                   disk_vars, log_vars, bars, customers, satisfactions, store_vars>>

\* lines 121, 136, 150 and the row lookups: a missing file or a missing column
CsvFails ==
    /\ \/ pc = "customers" /\ ~Readable(CustomerCsv)
       \/ pc = "satisfactions" /\ ~Readable(SatisfactionCsv)
       \/ pc = "links" /\ ~Readable(BarVertexCsv)
    /\ Abort
    /\ UNCHANGED lookups

(***************************************************************************)
(* The graph writer, lines 163-194.                                        *)
(***************************************************************************)
rest_vars == <<run, env_vars, all_api_files, i, parameters, existing_files,
               disk_vars, log_vars, local_vars>>

\* line 166 with the test dropped, and with the test inverted
ShouldDeleteAlways(s) == TRUE
ShouldDeleteWhenEmpty(s) == ~s

\* line 166
ShouldDelete(s) == s

\* line 165: the status is what the platform reports
ReadStatus ==
    /\ pc = "status"
    /\ \E s \in BOOLEAN :
         /\ status' = s
         /\ pc' = IF ShouldDelete(s) THEN "delete" ELSE "nodes"
    /\ UNCHANGED <<rest_vars, calls, create, graph, next_twin, pre_graph, first_result>>

DeleteQuery == [type |-> "query", graph_properties |-> <<>>]

\* lines 167-170 with a query that leaves the relationships
DeleteNodesOnly ==
    /\ pc = "delete"
    /\ calls' = Append(calls, DeleteQuery)
    /\ graph' = [graph EXCEPT !.nodes = <<>>]
    /\ pc' = "nodes"
    /\ UNCHANGED <<rest_vars, status, create, next_twin, pre_graph, first_result>>

\* lines 167-170: MATCH (n) DETACH DELETE n
DeleteAll ==
    /\ pc = "delete"
    /\ calls' = Append(calls, DeleteQuery)
    /\ graph' = EmptyGraph
    /\ pc' = "nodes"
    /\ UNCHANGED <<rest_vars, status, create, next_twin, pre_graph, first_result>>

\* line 176 with the lists swapped
CustomersThenBars == customers \o bars

\* line 176
NodeProperties == bars \o customers

\* line 194 without the bar_vertex records
SatisfactionsOnly == satisfactions

\* line 194
RelationshipProperties == satisfactions \o links

\* the store gives each created node an identifier of its own
Created(props, first) ==
    [k \in 1..Len(props) |-> [twin_id |-> TwinId(first + k - 1), rec |-> props[k]]]

\* lines 172-176
CreateNodes ==
    /\ pc = "nodes"
    /\ calls' = Append(calls, [type |-> "node", graph_properties |-> NodeProperties])
    /\ LET made == Created(NodeProperties, next_twin)
       IN  /\ graph' = [graph EXCEPT !.nodes = @ \o made]
           /\ create' = [k \in 1..Len(made) |->
                           [entity_id |-> made[k].rec.name, twin_id |-> made[k].twin_id]]
    /\ next_twin' = next_twin + Len(NodeProperties)
    /\ pc' = "rels"
    /\ UNCHANGED <<rest_vars, status, pre_graph, first_result>>

\* lines 190-194
CreateRelationships ==
    /\ pc = "rels"
    /\ calls' = Append(calls, [type |-> "relationship",
                               graph_properties |-> RelationshipProperties])
    /\ graph' = [graph EXCEPT !.rels = @ \o RelationshipProperties]
    /\ first_result' = IF run = 1 THEN graph' ELSE first_result
    /\ pc' = "done"
    /\ UNCHANGED <<rest_vars, status, create, next_twin, pre_graph>>

\* twingraph_query or create_twingraph_entities raises: the call was issued,
\* the graph is as it was
GraphCallFails ==
    /\ pc \in {"delete", "nodes", "rels"}
    /\ calls' = Append(calls,
                       CASE pc = "delete" -> DeleteQuery
                         [] pc = "nodes" -> [type |-> "node", graph_properties |-> NodeProperties]
                         [] pc = "rels" -> [type |-> "relationship",
                                            graph_properties |-> RelationshipProperties])
    /\ pc' = "failed"
    /\ UNCHANGED <<rest_vars, status, create, graph, next_twin, pre_graph, first_result>>

\* lines 199-200: main() is run again with the same inputs, on the same disk,
\* against the same dataset
Rerun ==
    /\ pc = "done"
    /\ run < MaxRuns
    /\ run' = run + 1
    /\ pc' = "start"
    /\ all_api_files' = <<>>
    /\ i' = 1
    /\ parameters' = NoParameters
    /\ existing_files' = <<>>
    /\ lookups' = {}
    /\ downloads' = <<>>
    /\ written' = <<>>
    /\ bars' = <<>> /\ customers' = <<>> /\ satisfactions' = <<>> /\ links' = <<>>
    /\ status' = FALSE
    /\ calls' = <<>>
    /\ create' = <<>>
    /\ pre_graph' = graph
    /\ UNCHANGED <<env_vars, dirs, files, graph, next_twin, first_result>>

Next ==
    \/ LoadRunData
    \/ NoTargetDataset
    \/ ResolveLiteral
    \/ SkipDataset
    \/ StartDataset
    \/ DownloadFile
    \/ FinishDataset
    \/ ApiFailure
    \/ BuildBar
    \/ BuildBarFails
    \/ Extract
    \/ ExtractFails
    \/ ReadCustomers
    \/ ReadSatisfactions
    \/ ReadLinks
    \/ CsvFails
    \/ ReadStatus
    \/ DeleteAll
    \/ CreateNodes
    \/ CreateRelationships
    \/ GraphCallFails
    \/ Rerun

Spec == Init /\ [][Next]_vars

(***************************************************************************)
(* The claims.                                                             *)
(***************************************************************************)
Kind(k) == calls[k].type
Issued(type) == \E k \in 1..Len(calls) : Kind(k) = type
Terminated == pc \in {"done", "failed"}
PastDelete == pc \in {"nodes", "rels", "done"} \/ (pc = "failed" /\ calls # <<>>)
Processed == IF pc \in {"start"} THEN {} ELSE 1..(i - 1)
Param(k) == runner_data.parameters_values[k]
LoopFinished == pc \notin {"start", "download"} /\ i > Len(runner_data.parameters_values)

\* C1: in a run that got past line 166 the delete-all query was issued if and
\* only if the status read was truthy; the query is only ever issued on a truthy
\* status and as the first call; a relationship bulk-create is only ever issued
\* after the node bulk-create.
C1_DeleteIffStatus_NodesFirst ==
    /\ PastDelete => (Issued("query") <=> status)
    /\ \A k \in 1..Len(calls) :
         /\ Kind(k) = "query" => status /\ k = 1
         /\ Kind(k) = "relationship" => \E j \in 1..(k - 1) : Kind(j) = "node"
         /\ Kind(k) = "node" => \A j \in 1..(k - 1) : Kind(j) = "query"

C1_Witness ==
    /\ pc = "done"
    /\ status
    /\ Len(calls) = 3
    /\ pre_graph # EmptyGraph

\* the rows of the two edge tables as they are on disk
EdgeRows == Rows(SatisfactionCsv) \o Rows(BarVertexCsv)
TwinOf(entity_id) == { c.twin_id : c \in { d \in Range(create) : d.entity_id = entity_id } }

\* C2: every relationship record handed to the relationship bulk-create has as
\* source and target the identifier the store gave to the node whose domain
\* identifier is the endpoint's CSV value; with an endpoint that names no created
\* node there is no relationship bulk-create at all.
C2_EndpointsAreStoreIds ==
    \A k \in 1..Len(calls) :
        Kind(k) = "relationship" =>
            \A m \in 1..Len(calls[k].graph_properties) :
                /\ calls[k].graph_properties[m].source \in TwinOf(EdgeRows[m].source)
                /\ calls[k].graph_properties[m].target \in TwinOf(EdgeRows[m].target)

\* the dataset parameters whose files were downloaded in this run
Downloaded ==
    { k \in Processed : /\ Param(k).var_type = DATASETID
                        /\ Param(k).parameter_id \in DOMAIN parameters }
RECURSIVE NamesFor(_, _)
NamesFor(log, id) ==
    IF log = <<>> THEN <<>>
    ELSE (IF Head(log).parameter_id = id THEN <<Head(log).file_name>> ELSE <<>>)
         \o NamesFor(Tail(log), id)
RECURSIVE Under(_, _)
Under(paths, dir) ==
    IF paths = <<>> THEN <<>>
    ELSE (IF StartsWith(Head(paths), dir \o <<"/">>) THEN <<Head(paths)>> ELSE <<>>)
         \o Under(Tail(paths), dir)
PrefixOf(k) == Remove(BlobPrefix(Param(k).value).text, <<WORKSPACE_FILE, "/">>)
MatchingIndexes(k) == { n \in 1..Len(all_api_files) : StartsWith(all_api_files[n], PrefixOf(k)) }
ScopedDir(k) == <<"$CSM_PARAMETERS_ABSOLUTE_PATH", "/", Param(k).parameter_id>>
FinalSegment(name) == <<name[Len(name)]>>

\* C3 as stated: a resolved dataset parameter with N matching entries has N
\* files under its directory from this run.
C3_ExactlyNFiles ==
    \A k \in Downloaded :
        Cardinality(Range(Under(written, ScopedDir(k)))) = Cardinality(MatchingIndexes(k))

\* C3 amended: a resolved dataset parameter with N matching entries has had N
\* downloads, those of the matching names in index order, and N writes under its
\* directory, the n-th to the final segment of the n-th matching name; the files
\* there from this run are the distinct final segments, at most N of them.
C3_NDownloadsNWrites ==
    \A k \in Downloaded :
        LET names == NamesFor(downloads, Param(k).parameter_id)
            paths == Under(written, ScopedDir(k))
        IN  /\ Len(names) = Cardinality(MatchingIndexes(k))
            /\ \A n \in 1..Len(names) :
                 /\ StartsWith(names[n], PrefixOf(k))
                 /\ \E x \in MatchingIndexes(k) :
                      /\ all_api_files[x] = names[n]
                      /\ Cardinality({ y \in MatchingIndexes(k) : y <= x }) = n
            /\ Len(paths) = Len(names)
            /\ \A n \in 1..Len(paths) :
                 paths[n] = ScopedDir(k) \o <<"/">> \o FinalSegment(names[n])
            /\ Range(paths) \subseteq DOMAIN files
            /\ Cardinality(Range(paths)) <= Len(names)

C3_Witness ==
    /\ LoopFinished
    /\ \E k \in Downloaded :
         /\ Cardinality(MatchingIndexes(k)) = 2
         /\ Cardinality(Range(Under(written, ScopedDir(k)))) = 1
    /\ \E k \in Downloaded : Cardinality(MatchingIndexes(k)) = 0

LacksMarker(k) ==
    \/ ~BlobPrefix(Param(k).value).present
    \/ ~Contains(BlobPrefix(Param(k).value).text, <<WORKSPACE_FILE>>)

\* C4: a dataset parameter whose storage prefix is absent or lacks the marker is,
\* once the loop is past it, not in the resolved mapping, has no directory and no
\* download, and the loop has gone on.
C4_SkippedIsAbsent ==
    \A k \in Processed :
        (Param(k).var_type = DATASETID /\ LacksMarker(k)) =>
            /\ Param(k).parameter_id \notin DOMAIN parameters
            /\ ScopedDir(k) \notin dirs
            /\ NamesFor(downloads, Param(k).parameter_id) = <<>>
            /\ Under(written, ScopedDir(k)) = <<>>

C4_Witness ==
    /\ LoopFinished
    /\ \E k \in Processed :
         /\ Param(k).var_type = DATASETID /\ LacksMarker(k)
         /\ BlobPrefix(Param(k).value).present
         /\ \E later \in Processed :
              later > k /\ Param(later).parameter_id \in DOMAIN parameters

\* C5: a parameter that is no dataset is, once the loop is past it, in the
\* resolved mapping with its value and var_type as given, and has no directory
\* and no download.
C5_LiteralUnchanged ==
    \A k \in Processed :
        Param(k).var_type # DATASETID =>
            /\ Param(k).parameter_id \in DOMAIN parameters
            /\ parameters[Param(k).parameter_id] = <<Param(k).value, Param(k).var_type>>
            /\ Param(k).parameter_id \notin lookups
            /\ ScopedDir(k) \notin dirs
            /\ NamesFor(downloads, Param(k).parameter_id) = <<>>

C5_Witness ==
    /\ LoopFinished
    /\ \E k \in Processed : Param(k).var_type # DATASETID /\ Param(k).value = <<"05">>
    /\ \E k \in Processed : Param(k).var_type # DATASETID /\ Param(k).value = <<"ten">>
    /\ Len(downloads) > 0 /\ lookups # {}

\* the records of a graph, without the identifiers of the store
Records(g) == [nodes |-> [k \in 1..Len(g.nodes) |-> g.nodes[k].rec], rels |-> g.rels]
ThisRun == [nodes |-> bars \o customers, rels |-> satisfactions \o links]
Joined(a, b) == [nodes |-> a.nodes \o b.nodes, rels |-> a.rels \o b.rels]

\* C6 as stated: a completed rerun leaves the store with the contents the
\* first completed run left.
C6_RerunSameContents ==
    (run > 1 /\ pc = "done") => Records(graph) = Records(first_result)

\* C6 amended: a completed rerun that read a truthy status leaves the store with
\* one copy of the records of the run and nothing else; one that read a falsy
\* status leaves what the earlier run left followed by its own records.
C6_RerunByStatus ==
    (run > 1 /\ pc = "done") =>
        IF status THEN Records(graph) = ThisRun
        ELSE Records(graph) = Joined(Records(pre_graph), ThisRun)

C6_Witness ==
    /\ run > 1 /\ pc = "done" /\ status
    /\ Records(graph) = Records(first_result)
    /\ Len(graph.rels) > 0

\* C7 as stated: the graph is empty whenever the node bulk-create is issued.
C7_EmptyAtNodeCreate == pc = "nodes" => graph = EmptyGraph

\* C7 amended: when the node bulk-create is issued the graph is empty if the
\* status read was truthy, and is as it was before the run if it was falsy.
C7_EmptyIfStatus ==
    pc = "nodes" => IF status THEN graph = EmptyGraph ELSE graph = pre_graph

C7_Witness == pc = "nodes" /\ status /\ pre_graph # EmptyGraph /\ Len(pre_graph.rels) > 0

TheCall(type) == calls[CHOOSE k \in 1..Len(calls) : Kind(k) = type].graph_properties

C9_AllOrNothing ==
    Terminated => (graph = pre_graph \/ Records(graph) = ThisRun)

\* C9 amended: a run that ended before it issued any call on the graph left the
\* graph as it was; a run that completed left all its node records and all its
\* relationship records in the graph, after what the graph held when the
\* status was falsy and alone when it was truthy.
C9_UntouchedOrComplete ==
    /\ (Terminated /\ calls = <<>>) => graph = pre_graph
    /\ pc = "done" =>
         Records(graph) = Joined(IF status THEN EmptyGraph ELSE Records(pre_graph),
                                 [nodes |-> bars \o customers, rels |-> satisfactions \o links])

C9_Witness ==
    /\ pc = "done"
    /\ ~status
    /\ pre_graph # EmptyGraph
    /\ Len(links) > 0 /\ Len(satisfactions) > 0

MissingRequired == \E k \in 1..Len(RequiredIds) : RequiredIds[k] \notin DOMAIN parameters

\* C10: when the loop is over and one of num_waiters, restock_quantity, stock,
\* bar_instance is not in the resolved mapping, the run has failed, no call on
\* the graph was issued and the graph is as it was.
C10_MissingRequiredAborts ==
    (LoopFinished /\ pc # "loop" /\ MissingRequired) =>
        /\ pc = "failed"
        /\ calls = <<>>
        /\ graph = pre_graph

C10_Witness ==
    /\ LoopFinished /\ pc = "failed"
    /\ bars # <<>>
    /\ "bar_instance" \notin DOMAIN parameters
    /\ \E k \in Processed : Param(k).parameter_id = "bar_instance"
    /\ pre_graph # EmptyGraph

====
